---- MODULE Spec2Model ----
(***************************************************************************)
(* Model of admin_app.py: the document pipeline of the RAG admin service.  *)
(*                                                                         *)
(* State: the three MongoDB collections the document handlers use          *)
(* (documents, stateboard, cbse), the Pinecone index, the uploads/         *)
(* directory, the supply of uuid4 identifiers and the HTTP response of the *)
(* last completed upload, update or delete.  The three listing handlers    *)
(* change no state: each is the operator that computes its response body   *)
(* from the collections.  A second group of variables holds one call of    *)
(* chunk_text, executed one loop iteration per step.  reqs holds the       *)
(* upload and delete requests that are handled one store call per step,    *)
(* concurrently, each with its position and its locals.                    *)
(*                                                                         *)
(* Conventions:                                                            *)
(*   - a character is a small integer, a text a sequence of characters;   *)
(*   - a collection is the sequence of its records in insertion order;    *)
(*     MongoDB's _id is left out (every handler projects it away) and so   *)
(*     is uploaded_at (no handler reads it);                               *)
(*   - an index record is [id, text, document_id]; its vector is           *)
(*     get_embedding(text), a function of the stored text, and is left out;*)
(*   - the id string f"{document_id}-{i}" is the pair <<document_id, i>>; *)
(*   - Python's None is the string None.                                   *)
(***************************************************************************)
EXTENDS Integers, Sequences, FiniteSets

VARIABLES
    documents_col,   \* db["documents"]: canonical records
    stateboard_col,  \* db["stateboard"]: category pointers
    cbse_col,        \* db["cbse"]: category pointers
    index,           \* the Pinecone index: a set of records, one per id
    uploads,         \* the uploads/ directory: filename -> saved content
    nextId,          \* the next identifier uuid.uuid4() hands out
    response,        \* the response of the last upload, update or delete
    updates,         \* the number of update requests handled so far
    reqs,            \* the requests handled step by step, in order of arrival
    seg              \* one call of chunk_text: its arguments and locals

vars == <<documents_col, stateboard_col, cbse_col, index, uploads, nextId,
          response, updates, reqs, seg>>

storeVars == <<documents_col, stateboard_col, cbse_col, index, uploads,
               nextId, response, updates>>

-----------------------------------------------------------------------------
(* Bounds of the model *)

\* Number of identifiers uuid4 hands out, hence of uploads in one behaviour.
MaxDocs == 2

\* Number of update requests in one behaviour.
MaxUpdates == 1

\* Number of requests handled step by step in one behaviour.
MaxReqs == 2

\* Longest text given to a stepwise chunk_text call.
MaxLen == 5

\* Largest chunk_size and overlap given to a stepwise chunk_text call.
MaxSize == 3

\* Iterations after which a stepwise chunk_text call is no longer followed:
\* more than any call with chunk_size > overlap makes.
MaxIter == MaxLen + 1

-----------------------------------------------------------------------------
(* Program constants *)

DefaultChunkSize == 500
DefaultOverlap == 100
DefaultLimit == 20

None == "None"

\* "\n", as a character
NL == 10

-----------------------------------------------------------------------------
(* Python and driver primitives *)

Min(a, b) == IF a < b THEN a ELSE b
Max(a, b) == IF a > b THEN a ELSE b

\* A slice bound as Python normalises it for a sequence of length n.
PyIndex(i, n) == IF i < 0 THEN Max(i + n, 0) ELSE Min(i, n)

\* text[a:b]
PySlice(text, a, b) ==
    LET lo == PyIndex(a, Len(text))
        hi == PyIndex(b, Len(text))
    IN  IF lo < hi THEN SubSeq(text, lo + 1, hi) ELSE <<>>

\* bool(x) of a request parameter: None and "" are false
Truthy(x) == x # None /\ x # ""

RECURSIVE Concat(_)
Concat(parts) ==
    IF parts = <<>> THEN <<>> ELSE Head(parts) \o Concat(Tail(parts))

SelectIdx(s, P(_)) == {i \in 1..Len(s) : P(s[i])}

\* cursor.limit(k): 0 is no limit, a negative k limits to |k|
CursorLimit(s, k) ==
    IF k = 0 THEN s
    ELSE SubSeq(s, 1, Min(Len(s), IF k < 0 THEN 0 - k ELSE k))

\* collection.delete_many({"document_id": d})
DeleteMany(col, d) == SelectSeq(col, LAMBDA r : r.document_id # d)

\* (mutant) the filter ignored: the first record of the collection deleted
DeleteFirst(col, d) == IF col = <<>> THEN col ELSE Tail(col)

\* collection.delete_one({"document_id": d}): the first match only
DeleteOne(col, d) ==
    LET hit == SelectIdx(col, LAMBDA r : r.document_id = d)
    IN  IF hit = {} THEN col
        ELSE LET k == CHOOSE i \in hit : \A j \in hit : i <= j
             IN  SubSeq(col, 1, k - 1) \o SubSeq(col, k + 1, Len(col))

\* {"$set": data} applied to one record: the fields of data overwrite or
\* are added, the other fields stay
SetFields(rec, data) ==
    [f \in DOMAIN rec \cup DOMAIN data |->
        IF f \in DOMAIN data THEN data[f] ELSE rec[f]]

\* (mutant) the filter ignored: the first record of the collection updated
UpdateFirst(col, d, data) ==
    IF col = <<>> THEN col ELSE [col EXCEPT ![1] = SetFields(col[1], data)]

\* collection.update_one({"document_id": d}, {"$set": data}): the first match
UpdateOne(col, d, data) ==
    LET hit == SelectIdx(col, LAMBDA r : r.document_id = d)
    IN  IF hit = {} THEN col
        ELSE LET k == CHOOSE i \in hit : \A j \in hit : i <= j
             IN  [col EXCEPT ![k] = SetFields(col[k], data)]

\* index.upsert(vectors): a record replaces the one with the same id
Upsert(idx, vectors) ==
    LET ids == {vectors[i].id : i \in 1..Len(vectors)}
        \* of two vectors with one id in a batch the later one stays
        latest(id) == CHOOSE i \in 1..Len(vectors) :
                          /\ vectors[i].id = id
                          /\ \A j \in 1..Len(vectors) :
                                 vectors[j].id = id => j <= i
    IN  {r \in idx : r.id \notin ids} \cup {vectors[latest(id)] : id \in ids}

\* (mutant) the filter ignored: every record deleted
IndexDeleteAll(idx, d) == {}

\* index.delete(filter={"document_id": {"$eq": d}})
IndexDelete(idx, d) == {r \in idx : r.document_id # d}

-----------------------------------------------------------------------------
(* chunk_text *)

\* (mutant) the loop condition as start <= len(text)
ChunkCondInclusive(text, start) == start <= Len(text)

\* the loop condition: start < len(text)
ChunkCond(text, start) == start < Len(text)

\* end = start + chunk_size
ChunkEnd(start, chunk_size) == start + chunk_size

\* (mutant) the chunk as text[start:end-1]
ChunkAppendShort(chunks, text, start, end) ==
    Append(chunks, PySlice(text, start, end - 1))

\* chunks.append(text[start:end])
ChunkAppend(chunks, text, start, end) == Append(chunks, PySlice(text, start, end))

\* (mutant) the next start as end, the overlap forgotten
ChunkAdvanceNoOverlap(end, overlap) == end

\* start = end - overlap
ChunkAdvance(end, overlap) == end - overlap

\* The loop of chunk_text from the locals (start, chunks) to its return value.
\* Evaluated only where the loop ends (chunk_size > overlap, or empty text).
RECURSIVE ChunkLoop(_, _, _, _, _)
ChunkLoop(text, chunk_size, overlap, start, chunks) ==
    IF ChunkCond(text, start)
    THEN LET end == ChunkEnd(start, chunk_size)
         IN  ChunkLoop(text, chunk_size, overlap, ChunkAdvance(end, overlap),
                       ChunkAppend(chunks, text, start, end))
    ELSE chunks

chunk_text(text, chunk_size, overlap) ==
    ChunkLoop(text, chunk_size, overlap, 0, <<>>)

-----------------------------------------------------------------------------
(* One call of chunk_text, one loop iteration per step *)

SegIdle ==
    [pc |-> "idle", text |-> <<>>, chunk_size |-> 0, overlap |-> 0,
     start |-> 0, chunks |-> <<>>]

\* the state of a call on entry to the loop: chunks = [], start = 0
SegCall(text, chunk_size, overlap) ==
    [pc |-> "loop", text |-> text, chunk_size |-> chunk_size,
     overlap |-> overlap, start |-> 0, chunks |-> <<>>]

\* one iteration of the while loop
SegIterate ==
    /\ seg.pc = "loop"
    /\ ChunkCond(seg.text, seg.start)
    /\ Len(seg.chunks) < MaxIter
    /\ LET end == ChunkEnd(seg.start, seg.chunk_size)
       IN  seg' = [seg EXCEPT
                     !.chunks = ChunkAppend(seg.chunks, seg.text, seg.start, end),
                     !.start = ChunkAdvance(end, seg.overlap)]
    /\ UNCHANGED <<storeVars, reqs>>

\* the loop condition fails: return chunks
SegReturn ==
    /\ seg.pc = "loop"
    /\ ~ChunkCond(seg.text, seg.start)
    /\ seg' = [seg EXCEPT !.pc = "return"]
    /\ UNCHANGED <<storeVars, reqs>>

-----------------------------------------------------------------------------
(* load_document, store_chunks *)

\* A file is [filename, parts]; filename is [stem, ext] and stands for the
\* string stem + ext.  parts is what the reader of its format yields: the
\* text of each page (.pdf), of each paragraph (.docx), or the decoded
\* content as one part (anything else).
EndsWith(filename, ext) == filename.ext = ext

RECURSIVE DocxText(_)
DocxText(paras) ==
    IF paras = <<>> THEN <<>>
    ELSE (Head(paras) \o <<NL>>) \o DocxText(Tail(paras))

load_document(disk, filename) ==
    IF EndsWith(filename, ".pdf") THEN Concat(disk[filename])
    ELSE IF EndsWith(filename, ".docx") THEN DocxText(disk[filename])
    ELSE IF EndsWith(filename, ".txt") THEN Concat(disk[filename])
    ELSE <<>>

\* (mutant) the vectors numbered from 1
ChunkVectorsFromOne(chunks, document_id) ==
    [i \in 1..Len(chunks) |->
        [id |-> <<document_id, i>>,
         text |-> chunks[i],
         document_id |-> document_id]]

\* the vectors list store_chunks builds
ChunkVectors(chunks, document_id) ==
    [i \in 1..Len(chunks) |->
        [id |-> <<document_id, i - 1>>,
         text |-> chunks[i],
         document_id |-> document_id]]

store_chunks(idx, chunks, document_id) ==
    Upsert(idx, ChunkVectors(chunks, document_id))

\* file.save(path)
FileSave(disk, file) ==
    [n \in DOMAIN disk \cup {file.filename} |->
        IF n = file.filename THEN file.parts ELSE disk[n]]

-----------------------------------------------------------------------------
(* Requests *)

\* the text of a 1200-character document: character i is i modulo 7
LongText == [i \in 1..1200 |-> i % 7]

Filename(stem, ext) == [stem |-> stem, ext |-> ext]

\* The uploaded files: a text of three chunks, a document of two
\* paragraphs (one chunk) and an image (no text, no chunk).
Files ==
    { [filename |-> Filename("notes", ".txt"), parts |-> <<LongText>>],
      [filename |-> Filename("plan", ".docx"), parts |-> << <<1, 2>>, <<3>> >>],
      [filename |-> Filename("photo", ".png"), parts |-> << <<6>> >>] }

\* The form fields of an upload: request.form.get gives None for a missing one.
Form(class_, board, subject, group) ==
    [class |-> class_, board |-> board, subject |-> subject, group |-> group]

Forms ==
    { Form("10", "stateboard", "Math", "A"),
      Form("10", "cbse", "Math", "B"),
      Form(None, None, None, None) }

DocIds == 1..MaxDocs

\* The JSON bodies of an update: fields of the record, a field it does not
\* have (note), and document_id.  A client can name in document_id only an
\* identifier it has seen, one of those handed out so far.
UpdateBodies ==
    { [class |-> "11", note |-> "checked"],
      [subject |-> "Physics", group |-> "B", board |-> "stateboard"] }
    \cup { [document_id |-> d] : d \in 1..(nextId - 1) }

\* The query parameters of a listing.
FilterClasses == {None, "", "10", "11"}
FilterSubjects == {None, "Math", "Physics"}
FilterGroups == {None, "A", "B"}
FilterBoards == {None, "stateboard", "cbse"}
Limits == {1, 2, DefaultLimit}

-----------------------------------------------------------------------------
(* Responses: jsonify({key: text}) with its status; the response of a      *)
(* successful upload also holds the document_id.                            *)

Message(status, key, text) == [status |-> status, key |-> key, text |-> text]

Uploaded(document_id) ==
    [status |-> 200, key |-> "message",
     text |-> "Document uploaded successfully", document_id |-> document_id]

-----------------------------------------------------------------------------
(* POST /admin/upload *)

\* the record given to documents_col.insert_one
CanonicalRecord(document_id, filename, form) ==
    [document_id |-> document_id, filename |-> filename,
     class |-> form.class, board |-> form.board,
     subject |-> form.subject, group |-> form.group]

\* (mutant) every board but "cbse" routed to stateboard_col
TargetIsNotCbse(board) == board # "cbse"

\* target_col = stateboard_col if board == "stateboard" else cbse_col
TargetIsStateboard(board) == board = "stateboard"

\* the record given to target_col.insert_one
PointerRecord(document_id, form) ==
    [class |-> form.class, subject |-> form.subject, group |-> form.group,
     document_id |-> document_id]

\* "file" not in request.files
admin_upload_no_file ==
    /\ response' = Message(400, "error", "No file uploaded")
    /\ UNCHANGED <<documents_col, stateboard_col, cbse_col, index, uploads,
                   nextId, updates, reqs, seg>>

admin_upload(file, form) ==
    /\ nextId <= MaxDocs
    /\ LET disk == FileSave(uploads, file)
           text == load_document(disk, file.filename)
           chunks == chunk_text(text, DefaultChunkSize, DefaultOverlap)
           document_id == nextId
       IN  /\ uploads' = disk
           /\ nextId' = nextId + 1
           /\ index' = store_chunks(index, chunks, document_id)
           /\ documents_col' =
                  Append(documents_col,
                         CanonicalRecord(document_id, file.filename, form))
           /\ IF TargetIsStateboard(form.board)
              THEN /\ stateboard_col' =
                          Append(stateboard_col, PointerRecord(document_id, form))
                   /\ UNCHANGED cbse_col
              ELSE /\ cbse_col' =
                          Append(cbse_col, PointerRecord(document_id, form))
                   /\ UNCHANGED stateboard_col
           /\ response' = Uploaded(document_id)
    /\ UNCHANGED <<updates, reqs, seg>>

-----------------------------------------------------------------------------
(* PUT /admin/document/<document_id> *)

update_document(document_id, data) ==
    /\ updates < MaxUpdates
    /\ updates' = updates + 1
    /\ documents_col' = UpdateOne(documents_col, document_id, data)
    /\ response' = Message(200, "message", "Document updated successfully")
    /\ UNCHANGED <<stateboard_col, cbse_col, index, uploads, nextId, reqs, seg>>

-----------------------------------------------------------------------------
(* DELETE /admin/document/<document_id> *)

delete_document(document_id) ==
    /\ documents_col' = DeleteOne(documents_col, document_id)
    /\ stateboard_col' = DeleteMany(stateboard_col, document_id)
    /\ cbse_col' = DeleteMany(cbse_col, document_id)
    /\ index' = IndexDelete(index, document_id)
    /\ response' = Message(200, "message", "Document deleted successfully")
    /\ UNCHANGED <<uploads, nextId, updates, reqs, seg>>

-----------------------------------------------------------------------------
(* GET /admin/documents, /admin/stateboard/documents, /admin/cbse/documents *)

\* collection.find(query): query holds the truthy parameters, as equalities
Matches(rec, query) == \A f \in DOMAIN query : rec[f] = query[f]

Find(col, query) == SelectSeq(col, LAMBDA r : Matches(r, query))

\* the query dict a handler builds from its parameters
Query(params) ==
    [f \in {g \in DOMAIN params : Truthy(params[g])} |-> params[f]]

\* the query dict of get_documents
DocumentsQuery(board, class_, subject) ==
    Query([board |-> board, class |-> class_, subject |-> subject])

\* (mutant) the group parameter left out of the query
PointerQueryNoGroup(class_, subject, group) ==
    Query([class |-> class_, subject |-> subject])

\* the query dict of a board-scoped listing
PointerQuery(class_, subject, group) ==
    Query([class |-> class_, subject |-> subject, group |-> group])

\* documents_col.find({"document_id": {"$in": document_ids}})
FindIn(col, document_ids) ==
    SelectSeq(col, LAMBDA r :
        \E i \in 1..Len(document_ids) : document_ids[i] = r.document_id)

DocumentIds(pointers) == [i \in 1..Len(pointers) |-> pointers[i].document_id]

\* the body get_documents returns; group is a parameter it does not read
GetDocuments(board, class_, subject, group, limit) ==
    CursorLimit(Find(documents_col, DocumentsQuery(board, class_, subject)),
                limit)

\* the body a board-scoped listing returns from its partition
BoardDocuments(partition, class_, subject, group, limit) ==
    LET docs == CursorLimit(Find(partition, PointerQuery(class_, subject, group)),
                            limit)
    IN  FindIn(documents_col, DocumentIds(docs))

GetStateboardDocuments(class_, subject, group, limit) ==
    BoardDocuments(stateboard_col, class_, subject, group, limit)

GetCbseDocuments(class_, subject, group, limit) ==
    BoardDocuments(cbse_col, class_, subject, group, limit)

-----------------------------------------------------------------------------
(* Specifications *)

EmptyDisk == [n \in {} |-> <<>>]

NoResponse == Message(0, "", "")

\* The service after start-up: empty collections, an empty index.
Init ==
    /\ documents_col = <<>>
    /\ stateboard_col = <<>>
    /\ cbse_col = <<>>
    /\ index = {}
    /\ uploads = EmptyDisk
    /\ nextId = 1
    /\ response = NoResponse
    /\ updates = 0
    /\ reqs = <<>>
    /\ seg = SegIdle

Upload == \E file \in Files, form \in Forms : admin_upload(file, form)
UploadNoFile == admin_upload_no_file
Update == \E d \in DocIds, data \in UpdateBodies : update_document(d, data)
Delete == \E d \in DocIds : delete_document(d)
Next ==
    \/ Upload
    \/ UploadNoFile
    \/ Update
    \/ Delete

\* Requests handled one at a time, each to completion.
Spec == Init /\ [][Next]_vars

NextNoUpdate ==
    \/ Upload
    \/ UploadNoFile
    \/ Delete

\* The same without update requests.
SpecNoUpdate == Init /\ [][NextNoUpdate]_vars

\* The texts and sizes of the stepwise chunk_text calls.
Chars == {1, 2}

Texts == UNION {[1..n -> Chars] : n \in 0..MaxLen}

InitSeg ==
    /\ documents_col = <<>>
    /\ stateboard_col = <<>>
    /\ cbse_col = <<>>
    /\ index = {}
    /\ uploads = EmptyDisk
    /\ nextId = 1
    /\ response = NoResponse
    /\ updates = 0
    /\ reqs = <<>>
    /\ \E text \in Texts, chunk_size \in 1..MaxSize, overlap \in 0..MaxSize :
           seg = SegCall(text, chunk_size, overlap)

NextSeg ==
    \/ SegIterate
    \/ SegReturn

\* One call of chunk_text on any of the texts and sizes.
SpecSeg == InitSeg /\ [][NextSeg]_vars

-----------------------------------------------------------------------------
(* Requests handled one store call per step.  The service runs its         *)
(* handlers concurrently; the handlers share the collections, the index    *)
(* and the uploads directory and hold no lock, so the calls of two         *)
(* requests interleave.  A call to a store can raise; the handlers have no *)
(* try/except, so the request then ends with status 500.                   *)

\* the four stores as one value
Stores ==
    [documents_col |-> documents_col, stateboard_col |-> stateboard_col,
     cbse_col |-> cbse_col, index |-> index]

SetStores(S) ==
    /\ documents_col' = S.documents_col
    /\ stateboard_col' = S.stateboard_col
    /\ cbse_col' = S.cbse_col
    /\ index' = S.index

\* the position after pc in a handler whose statements run in this order
NextPc(order, pc) ==
    order[(CHOOSE k \in 1..Len(order) : order[k] = pc) + 1]

\* (mutant) the canonical record inserted before the upsert
UploadOrderCanonicalFirst ==
    <<"save", "load", "insert_doc", "upsert", "insert_ptr", "done">>

\* the statements of admin_upload, in order
UploadOrder ==
    <<"save", "load", "upsert", "insert_doc", "insert_ptr", "done">>

\* (mutant) the index cleared first
DeleteOrderIndexFirst ==
    <<"delete_index", "delete_doc", "delete_stateboard", "delete_cbse", "done">>

\* the statements of delete_document, in order
DeleteOrder ==
    <<"delete_doc", "delete_stateboard", "delete_cbse", "delete_index", "done">>

\* the statements of admin_upload that call a store
UploadStoreSteps == {"upsert", "insert_doc", "insert_ptr"}

\* the statements of delete_document: each calls a store
DeleteStoreSteps == {"delete_doc", "delete_stateboard", "delete_cbse",
                     "delete_index"}

\* a request that has arrived at admin_upload with a file
UploadRequest(file, form) ==
    [op |-> "upload", pc |-> "save", file |-> file, form |-> form,
     text |-> <<>>, chunks |-> <<>>, document_id |-> 0,
     status |-> 0, failed_at |-> ""]

\* a request that has arrived at delete_document
DeleteRequest(document_id) ==
    [op |-> "delete", pc |-> "delete_doc", document_id |-> document_id,
     status |-> 0, failed_at |-> ""]

\* (mutant) the exception swallowed, the request answered as a success
OnExceptionSwallowed(r) ==
    [r EXCEPT !.pc = "done", !.status = 200, !.failed_at = r.pc]

\* an exception leaves the handler: no later statement runs, status 500
OnException(r) ==
    [r EXCEPT !.pc = "failed", !.status = 500, !.failed_at = r.pc]

\* the store call of admin_upload at pc, for the request r
UploadCall(S, pc, r) ==
    CASE pc = "upsert" ->
             [S EXCEPT !.index = store_chunks(@, r.chunks, r.document_id)]
      [] pc = "insert_doc" ->
             [S EXCEPT !.documents_col =
                 Append(@, CanonicalRecord(r.document_id, r.file.filename,
                                           r.form))]
      [] pc = "insert_ptr" ->
             IF TargetIsStateboard(r.form.board)
             THEN [S EXCEPT !.stateboard_col =
                      Append(@, PointerRecord(r.document_id, r.form))]
             ELSE [S EXCEPT !.cbse_col =
                      Append(@, PointerRecord(r.document_id, r.form))]
      [] OTHER -> S

\* the store call of delete_document at pc
DeleteCall(S, pc, document_id) ==
    CASE pc = "delete_doc" ->
             [S EXCEPT !.documents_col = DeleteOne(@, document_id)]
      [] pc = "delete_stateboard" ->
             [S EXCEPT !.stateboard_col = DeleteMany(@, document_id)]
      [] pc = "delete_cbse" ->
             [S EXCEPT !.cbse_col = DeleteMany(@, document_id)]
      [] pc = "delete_index" ->
             [S EXCEPT !.index = IndexDelete(@, document_id)]
      [] OTHER -> S

\* the request with its position moved past pc; the last statement returns 200
Advance(r, order) ==
    LET next == NextPc(order, r.pc)
    IN  [r EXCEPT !.pc = next,
                  !.status = IF next = "done" THEN 200 ELSE @]

UploadCount == Cardinality({i \in 1..Len(reqs) : reqs[i].op = "upload"})

StartUpload(file, form) ==
    /\ Len(reqs) < MaxReqs
    /\ UploadCount < MaxDocs
    /\ reqs' = Append(reqs, UploadRequest(file, form))
    /\ UNCHANGED <<storeVars, seg>>

\* one statement of admin_upload, for the request at position i
UploadStep(i) ==
    /\ reqs[i].op = "upload"
    /\ reqs[i].pc \notin {"done", "failed"}
    /\ LET r == reqs[i]
       IN  CASE r.pc = "save" ->
                    /\ uploads' = FileSave(uploads, r.file)
                    /\ reqs' = [reqs EXCEPT ![i] = Advance(r, UploadOrder)]
                    /\ UNCHANGED <<documents_col, stateboard_col, cbse_col,
                                   index, nextId>>
             [] r.pc = "load" ->
                    LET text == load_document(uploads, r.file.filename)
                    IN  /\ reqs' = [reqs EXCEPT ![i] =
                               [Advance(r, UploadOrder) EXCEPT
                                   !.text = text,
                                   !.chunks = chunk_text(text, DefaultChunkSize,
                                                         DefaultOverlap),
                                   !.document_id = nextId]]
                        /\ nextId' = nextId + 1
                        /\ UNCHANGED <<documents_col, stateboard_col, cbse_col,
                                       index, uploads>>
             [] OTHER ->
                    /\ SetStores(UploadCall(Stores, r.pc, r))
                    /\ reqs' = [reqs EXCEPT ![i] = Advance(r, UploadOrder)]
                    /\ UNCHANGED <<uploads, nextId>>
    /\ UNCHANGED <<response, updates, seg>>

\* a store call of admin_upload raises
UploadFail(i) ==
    /\ reqs[i].op = "upload"
    /\ reqs[i].pc \in UploadStoreSteps
    /\ reqs' = [reqs EXCEPT ![i] = OnException(@)]
    /\ UNCHANGED <<storeVars, seg>>

StartDelete(document_id) ==
    /\ Len(reqs) < MaxReqs
    /\ reqs' = Append(reqs, DeleteRequest(document_id))
    /\ UNCHANGED <<storeVars, seg>>

\* one statement of delete_document, for the request at position i
DeleteStep(i) ==
    /\ reqs[i].op = "delete"
    /\ reqs[i].pc \in DeleteStoreSteps
    /\ SetStores(DeleteCall(Stores, reqs[i].pc, reqs[i].document_id))
    /\ reqs' = [reqs EXCEPT ![i] = Advance(@, DeleteOrder)]
    /\ UNCHANGED <<uploads, nextId, response, updates, seg>>

\* a store call of delete_document raises
DeleteFail(i) ==
    /\ reqs[i].op = "delete"
    /\ reqs[i].pc \in DeleteStoreSteps
    /\ reqs' = [reqs EXCEPT ![i] = OnException(@)]
    /\ UNCHANGED <<storeVars, seg>>

\* The stepwise uploads: two contents under one filename, of three chunks
\* for one board and of one chunk for the other.
StepUploads ==
    { [file |-> [filename |-> Filename("notes", ".txt"),
                 parts |-> <<LongText>>],
       form |-> Form("10", "stateboard", "Math", "A")],
      [file |-> [filename |-> Filename("notes", ".txt"),
                 parts |-> << <<4, 5>> >>],
       form |-> Form("10", "cbse", "Math", "B")] }

IngestStart == \E u \in StepUploads : StartUpload(u.file, u.form)
IngestStep == \E i \in 1..Len(reqs) : UploadStep(i)
IngestFail == \E i \in 1..Len(reqs) : UploadFail(i)
\* A client names in a delete an identifier that has been handed out.
RemoveStart == \E d \in 1..(nextId - 1) : StartDelete(d)
RemoveStep == \E i \in 1..Len(reqs) : DeleteStep(i)
RemoveFail == \E i \in 1..Len(reqs) : DeleteFail(i)

NextIngest ==
    \/ IngestStart
    \/ IngestStep
    \/ IngestFail

\* Concurrent uploads, no other request.
SpecIngest == Init /\ [][NextIngest]_vars

NextSteps ==
    \/ IngestStart
    \/ IngestStep
    \/ IngestFail
    \/ RemoveStart
    \/ RemoveStep
    \/ RemoveFail

\* Concurrent uploads and deletes.
SpecSteps == Init /\ [][NextSteps]_vars

StoredUpload == \E u \in StepUploads : admin_upload(u.file, u.form)

NextRemove ==
    \/ StoredUpload
    \/ RemoveStart
    \/ RemoveStep
    \/ RemoveFail

\* Concurrent deletes, among uploads that each run to completion.
SpecRemove == Init /\ [][NextRemove]_vars

-----------------------------------------------------------------------------
(* Properties: what the stores hold for a document_id *)

Range(s) == {s[i] : i \in 1..Len(s)}

\* the number of records of a collection with document_id d
CountOf(col, d) == Cardinality({i \in 1..Len(col) : col[i].document_id = d})

\* the records of the index with metadata document_id d
EmbeddingsOf(idx, d) == {r \in idx : r.document_id = d}

\* some listing, with some parameters, returns a record with document_id d
Listed(d) ==
    \E c \in FilterClasses, s \in FilterSubjects, g \in FilterGroups,
       k \in Limits :
        \/ \E b \in FilterBoards :
               \E r \in Range(GetDocuments(b, c, s, g, k)) : r.document_id = d
        \/ \E r \in Range(GetStateboardDocuments(c, s, g, k)) : r.document_id = d
        \/ \E r \in Range(GetCbseDocuments(c, s, g, k)) : r.document_id = d

\* no store holds anything of d and no listing returns it
NoFootprint(d) ==
    /\ CountOf(documents_col, d) = 0
    /\ CountOf(stateboard_col, d) = 0
    /\ CountOf(cbse_col, d) = 0
    /\ EmbeddingsOf(index, d) = {}
    /\ ~Listed(d)

\* C1 (as claimed): once delete_document(d) has completed, the canonical
\* store, both pointer partitions and the vector index hold nothing with
\* document_id d, and no listing returns d.
C1_DeletionComplete ==
    [][\A d \in DocIds : delete_document(d) => NoFootprint(d)']_vars

\* every pointer agrees with every canonical record of its document_id on
\* class, subject and group, and lies in the partition the record's board
\* selects
PointerAgrees(p, r, inStateboard) ==
    /\ p.class = r.class
    /\ p.subject = r.subject
    /\ p.group = r.group
    /\ inStateboard <=> (r.board = "stateboard")

\* C2 (as claimed): in every state reached by completed ingest, update and
\* delete requests, each category pointer of a live document agrees with the
\* document's canonical record on class, subject and group and lies in the
\* partition the record's board selects.
C2_PointersAgree ==
    \A r \in Range(documents_col) :
        /\ \A p \in Range(stateboard_col) :
               p.document_id = r.document_id => PointerAgrees(p, r, TRUE)
        /\ \A p \in Range(cbse_col) :
               p.document_id = r.document_id => PointerAgrees(p, r, FALSE)

\* what a successful ingest with this board must do to the two partitions
RoutedTo(board, d) ==
    IF board = "stateboard"
    THEN /\ CountOf(stateboard_col', d) = 1
         /\ Len(stateboard_col') = Len(stateboard_col) + 1
         /\ CountOf(cbse_col', d) = 0
         /\ cbse_col' = cbse_col
    ELSE /\ CountOf(cbse_col', d) = 1
         /\ Len(cbse_col') = Len(cbse_col) + 1
         /\ CountOf(stateboard_col', d) = 0
         /\ stateboard_col' = stateboard_col

\* C3: every successful ingest with board = "stateboard" adds exactly one
\* pointer for the new document_id to the stateboard partition and none to
\* the cbse partition; with any other board, a missing one included, it adds
\* exactly one to the cbse partition and none to the stateboard partition.
C3_Routing ==
    [][\A file \in Files, form \in Forms :
          admin_upload(file, form) => RoutedTo(form.board, nextId)]_vars

\* An upload has just completed for a document with no board; its only
\* pointer is in cbse, and a stateboard document has its only pointer in
\* stateboard.
C3_Witness ==
    /\ response.text = "Document uploaded successfully"
    /\ \E r \in Range(documents_col) :
           /\ r.document_id = response.document_id
           /\ r.board = None
           /\ CountOf(cbse_col, r.document_id) = 1
           /\ CountOf(stateboard_col, r.document_id) = 0
    /\ \E r \in Range(documents_col) :
           /\ r.board = "stateboard"
           /\ CountOf(stateboard_col, r.document_id) = 1
           /\ CountOf(cbse_col, r.document_id) = 0

\* the records of a collection that are not of document_id d
Others(col, d) == SelectSeq(col, LAMBDA r : r.document_id # d)

\* what a successful ingest of this file must leave for its document_id d
Footprint(file, d) ==
    LET text == load_document(FileSave(uploads, file), file.filename)
        chunks == chunk_text(text, DefaultChunkSize, DefaultOverlap)
        n == Len(chunks)
    IN  /\ response'.status = 200
        /\ response'.document_id = d
        /\ file.filename.ext \notin {".pdf", ".docx", ".txt"} => n = 0
        /\ Len(text) = 1200 => n = 3
        /\ Cardinality(EmbeddingsOf(index', d)) = n
        /\ {r.id : r \in EmbeddingsOf(index', d)} = {<<d, i>> : i \in 0..(n - 1)}
        /\ \A i \in 0..(n - 1) :
               \E r \in index' :
                   r.id = <<d, i>> /\ r.text = chunks[i + 1] /\ r.document_id = d
        /\ CountOf(documents_col', d) = 1
        /\ CountOf(stateboard_col', d) + CountOf(cbse_col', d) = 1
        /\ {r \in index' : r.document_id # d} = {r \in index : r.document_id # d}
        /\ Others(documents_col', d) = Others(documents_col, d)
        /\ Others(stateboard_col', d) = Others(stateboard_col, d)
        /\ Others(cbse_col', d) = Others(cbse_col, d)

\* C4: after a successful ingest whose text segments into n chunks (n = 0
\* for empty text or an unsupported extension), the returned document_id d
\* has exactly n embedding records, with ids d-0 .. d-(n-1), record i holding
\* chunk i and document_id d; exactly one canonical record; exactly one
\* pointer across both partitions; the records of other documents are
\* unchanged.
C4_Footprint ==
    [][\A file \in Files, form \in Forms :
          admin_upload(file, form) => Footprint(file, nextId)]_vars

\* The 1200-character text has just been ingested as the second document:
\* three records d-0, d-1, d-2 holding [0:500], [400:900], [800:1200], beside
\* the records of the first document.
C4_Witness ==
    /\ response.text = "Document uploaded successfully"
    /\ response.document_id = 2
    /\ Cardinality(EmbeddingsOf(index, 2)) = 3
    /\ \E r \in index : r.id = <<2, 0>> /\ r.text = SubSeq(LongText, 1, 500)
    /\ \E r \in index : r.id = <<2, 1>> /\ r.text = SubSeq(LongText, 401, 900)
    /\ \E r \in index : r.id = <<2, 2>> /\ r.text = SubSeq(LongText, 801, 1200)
    /\ EmbeddingsOf(index, 1) # {}
    /\ CountOf(documents_col, 2) = 1

-----------------------------------------------------------------------------
(* Properties of chunk_text, on the call that seg holds *)

Returned == seg.pc = "return"

\* 0 <= overlap < chunk_size
ValidSizes == 0 <= seg.overlap /\ seg.overlap < seg.chunk_size

\* ceil(a / b) for a >= 0 and b > 0
CeilDiv(a, b) == (a + b - 1) \div b

\* C5 (as claimed): for every non-empty text shorter than chunk_size and
\* every overlap with 0 <= overlap < chunk_size, chunk_text returns exactly one
\* chunk, equal to the full text; for empty text it returns the empty
\* sequence.
C5_ShortTextOneChunk ==
    (Returned /\ ValidSizes /\ Len(seg.text) < seg.chunk_size) =>
        IF seg.text = <<>> THEN seg.chunks = <<>>
        ELSE seg.chunks = <<seg.text>>

\* C5 (amended): for every non-empty text shorter than chunk_size and every
\* overlap with 0 <= overlap < chunk_size, the first chunk chunk_text returns
\* equals the full text, and it is the only chunk exactly when
\* len(text) <= chunk_size - overlap; for empty text it returns the empty
\* sequence.
C5_ShortTextFirstChunk ==
    (Returned /\ ValidSizes /\ Len(seg.text) < seg.chunk_size) =>
        IF seg.text = <<>> THEN seg.chunks = <<>>
        ELSE /\ Len(seg.chunks) >= 1
             /\ seg.chunks[1] = seg.text
             /\ Len(seg.chunks) = 1 <=>
                    Len(seg.text) <= seg.chunk_size - seg.overlap

\* A call has returned for a text shorter than chunk_size yet longer than
\* chunk_size - overlap: the full text, then a second chunk.
C5_Witness ==
    /\ Returned
    /\ ValidSizes
    /\ seg.text # <<>>
    /\ Len(seg.text) < seg.chunk_size
    /\ Len(seg.text) > seg.chunk_size - seg.overlap
    /\ Len(seg.chunks) = 2
    /\ seg.chunks[1] = seg.text

\* C6 (as claimed): for chunk_size C > overlap O >= 0 the number of chunks
\* of a text T is ceil(max(len(T) - O, 0) / (C - O)), zero for empty T.
C6_CountMinusOverlap ==
    (Returned /\ ValidSizes) =>
        Len(seg.chunks) =
            CeilDiv(Max(Len(seg.text) - seg.overlap, 0),
                    seg.chunk_size - seg.overlap)

\* C6 (amended): for chunk_size C > overlap O >= 0 the number of chunks of
\* a text T is ceil(len(T) / (C - O)), zero for empty T.
C6_Count ==
    (Returned /\ ValidSizes) =>
        /\ Len(seg.chunks) =
               CeilDiv(Len(seg.text), seg.chunk_size - seg.overlap)
        /\ seg.text = <<>> => Len(seg.chunks) = 0

\* A call with a positive overlap has returned three chunks, one more than
\* the claimed count.
C6_Witness ==
    /\ Returned
    /\ ValidSizes
    /\ seg.overlap > 0
    /\ Len(seg.chunks) = 3
    /\ CeilDiv(Max(Len(seg.text) - seg.overlap, 0),
               seg.chunk_size - seg.overlap) = 2

\* T[a:b] for 0 <= a <= b <= len(T)
Sub(text, a, b) == SubSeq(text, a + 1, b)

\* chunk[0 : stride] of every chunk, in order, concatenated
RECURSIVE Heads(_, _)
Heads(chunks, stride) ==
    IF chunks = <<>> THEN <<>>
    ELSE Sub(Head(chunks), 0, Min(stride, Len(Head(chunks))))
             \o Heads(Tail(chunks), stride)

\* C7: for chunk_size C > overlap O >= 0 and a text T of length L, chunk i
\* (from 0) is T[i*(C-O) : min(i*(C-O)+C, L)], the chunks cover every
\* position of [0, L), and the first C-O characters of every chunk,
\* concatenated in order, are T.
C7_Coverage ==
    (Returned /\ ValidSizes) =>
        LET stride == seg.chunk_size - seg.overlap
            L == Len(seg.text)
            n == Len(seg.chunks)
            from(i) == i * stride
            to(i) == Min(i * stride + seg.chunk_size, L)
        IN  /\ \A i \in 0..(n - 1) :
                   /\ from(i) < L
                   /\ seg.chunks[i + 1] = Sub(seg.text, from(i), to(i))
            /\ \A pos \in 0..(L - 1) :
                   \E i \in 0..(n - 1) : from(i) <= pos /\ pos < to(i)
            /\ Heads(seg.chunks, stride) = seg.text

\* A call has returned several overlapping chunks, the last one shorter
\* than chunk_size.
C7_Witness ==
    /\ Returned
    /\ ValidSizes
    /\ seg.overlap > 0
    /\ Len(seg.chunks) >= 3
    /\ Len(seg.chunks[Len(seg.chunks)]) < seg.chunk_size
    /\ Len(seg.chunks[1]) = seg.chunk_size

\* C8 (as claimed): with overlap >= chunk_size, chunk_text ends by signalling
\* an invalid-configuration error; no chunk is emitted, for any text.
C8_InvalidSizesRejected ==
    (seg.pc # "idle" /\ seg.overlap >= seg.chunk_size) => seg.chunks = <<>>

-----------------------------------------------------------------------------
(* Properties of the listings *)

\* every supplied filter holds of the record, as an equality
Satisfies(r, class_, subject, group) ==
    /\ Truthy(class_) => r.class = class_
    /\ Truthy(subject) => r.subject = subject
    /\ Truthy(group) => r.group = group

\* C9 (as claimed): for every combination of the optional filters class,
\* subject and group, get_documents returns only canonical records that
\* satisfy every supplied filter; with group = g supplied, every returned
\* document has group g.
C9_UnscopedFilters ==
    \A c \in FilterClasses, s \in FilterSubjects, g \in FilterGroups,
       k \in Limits :
        \A r \in Range(GetDocuments(None, c, s, g, k)) :
            /\ r \in Range(documents_col)
            /\ Satisfies(r, c, s, g)

\* the canonical records, in order, of the documents on this side of the
\* board sentinel that satisfy the filters
BoardMatches(stateboard, class_, subject, group) ==
    SelectSeq(documents_col, LAMBDA r :
        /\ (r.board = "stateboard") <=> stateboard
        /\ Satisfies(r, class_, subject, group))

\* C10: after completed ingest and delete requests, with fewer matching
\* documents than the limit, get_stateboard_documents returns exactly the
\* canonical records of the live documents ingested with board =
\* "stateboard" that match every supplied filter, and get_cbse_documents
\* exactly those ingested with any other board; neither returns a document
\* of the other side.
C10_BoardScoped ==
    \A c \in FilterClasses, s \in FilterSubjects, g \in FilterGroups,
       k \in Limits :
        /\ Len(BoardMatches(TRUE, c, s, g)) < k =>
               GetStateboardDocuments(c, s, g, k) = BoardMatches(TRUE, c, s, g)
        /\ Len(BoardMatches(FALSE, c, s, g)) < k =>
               GetCbseDocuments(c, s, g, k) = BoardMatches(FALSE, c, s, g)
        /\ \A r \in Range(GetStateboardDocuments(c, s, g, k)) :
               r.board = "stateboard"
        /\ \A r \in Range(GetCbseDocuments(c, s, g, k)) :
               r.board # "stateboard"

\* Two documents were ingested, one per side, and one was deleted since:
\* the stateboard listing for class 10 returns exactly the stateboard
\* document, the cbse listing for class 10 returns nothing.
C10_Witness ==
    /\ nextId = 3
    /\ response.text = "Document deleted successfully"
    /\ Len(documents_col) = 1
    /\ Len(GetStateboardDocuments("10", None, None, DefaultLimit)) = 1
    /\ GetStateboardDocuments("10", None, None, DefaultLimit) = documents_col
    /\ documents_col[1].board = "stateboard"
    /\ GetCbseDocuments("10", None, None, DefaultLimit) = <<>>

-----------------------------------------------------------------------------
(* Properties of delete and update requests *)

\* no canonical record, no pointer and no embedding record of x is stored
Unknown(x) ==
    /\ CountOf(documents_col, x) = 0
    /\ CountOf(stateboard_col, x) = 0
    /\ CountOf(cbse_col, x) = 0
    /\ EmbeddingsOf(index, x) = {}

\* C11: for every document_id x that has no canonical record, no pointer
\* and no embedding record, delete_document(x) reports success and leaves the
\* canonical store, both pointer partitions and the vector index exactly
\* unchanged; so does a second delete of an id after a completed one.
C11_DeleteUnknown ==
    [][\A x \in DocIds :
          (Unknown(x) /\ delete_document(x)) =>
              /\ response'.status = 200
              /\ response'.text = "Document deleted successfully"
              /\ documents_col' = documents_col
              /\ stateboard_col' = stateboard_col
              /\ cbse_col' = cbse_col
              /\ index' = index]_vars

\* Only identifier 1 was handed out and document 1 is fully stored, yet a
\* delete has just answered: it was a delete of an identifier with nothing
\* stored, and it reported success and removed nothing.
C11_Witness ==
    /\ nextId = 2
    /\ response.status = 200
    /\ response.text = "Document deleted successfully"
    /\ Unknown(2)
    /\ CountOf(documents_col, 1) = 1
    /\ CountOf(stateboard_col, 1) + CountOf(cbse_col, 1) = 1
    /\ Cardinality(EmbeddingsOf(index, 1)) = 3

\* the document_ids of the canonical records, in order
CanonicalIds(col) == [i \in 1..Len(col) |-> col[i].document_id]

\* C12 (as claimed): no request, an update_document with an arbitrary body
\* included, changes the document_id of a canonical record, and no
\* document_id ever has more than one canonical record.
C12_IdentifierInvariant ==
    [][/\ \A d \in DocIds, data \in UpdateBodies :
              update_document(d, data) =>
                  CanonicalIds(documents_col') = CanonicalIds(documents_col)
       /\ \A d \in DocIds : CountOf(documents_col', d) <= 1]_vars

\* record k of the collection, and no other, has taken the fields of data
MergedAt(old, new, k, data) ==
    /\ Len(new) = Len(old)
    /\ \A i \in 1..Len(old) : i # k => new[i] = old[i]
    /\ DOMAIN new[k] = DOMAIN old[k] \cup DOMAIN data
    /\ \A f \in DOMAIN data : new[k][f] = data[f]
    /\ \A f \in DOMAIN old[k] \ DOMAIN data : new[k][f] = old[k][f]

\* C13: update_document(d, fields) sets exactly the supplied fields on the
\* canonical record whose document_id is d and leaves every other field of
\* that record and every other canonical record unchanged; when no canonical
\* record has document_id d it reports success, inserts nothing and leaves
\* every store unchanged.
C13_PartialMerge ==
    [][\A d \in DocIds, data \in UpdateBodies :
          update_document(d, data) =>
              /\ response'.status = 200
              /\ response'.text = "Document updated successfully"
              /\ stateboard_col' = stateboard_col
              /\ cbse_col' = cbse_col
              /\ index' = index
              /\ IF CountOf(documents_col, d) = 0
                 THEN documents_col' = documents_col
                 ELSE \E k \in 1..Len(documents_col) :
                          /\ documents_col[k].document_id = d
                          /\ MergedAt(documents_col, documents_col', k, data)]_vars

\* An update of class (and of a field the record did not have) has just
\* answered: the first record has the new class and its other fields as
\* ingested, the second record is as ingested.
C13_Witness ==
    /\ response.text = "Document updated successfully"
    /\ Len(documents_col) = 2
    /\ documents_col[1].class = "11"
    /\ documents_col[1].note = "checked"
    /\ documents_col[1].subject = "Math"
    /\ documents_col[1].board = "stateboard"
    /\ documents_col[1].document_id = 1
    /\ documents_col[2] = CanonicalRecord(2, Filename("plan", ".docx"),
                                          Form("10", "cbse", "Math", "B"))

\* C14 (as claimed): in every reachable state and for every limit k >= 1,
\* get_documents, get_stateboard_documents and get_cbse_documents called with
\* limit = k return at most k documents.
C14_LimitCaps ==
    \A c \in FilterClasses, s \in FilterSubjects, g \in FilterGroups,
       k \in {l \in Limits : l >= 1} :
        /\ \A b \in FilterBoards : Len(GetDocuments(b, c, s, g, k)) <= k
        /\ Len(GetStateboardDocuments(c, s, g, k)) <= k
        /\ Len(GetCbseDocuments(c, s, g, k)) <= k

-----------------------------------------------------------------------------
(* Properties of the requests handled step by step *)

\* the pointers of both partitions with document_id d
PointersOf(d) == CountOf(stateboard_col, d) + CountOf(cbse_col, d)

\* the embedding records store_chunks writes for the request r
VectorsOf(r) == Range(ChunkVectors(r.chunks, r.document_id))

\* what an upload that failed has left in the stores
FailedLeaves(r) ==
    /\ r.failed_at = "upsert" =>
           /\ EmbeddingsOf(index, r.document_id) = {}
           /\ CountOf(documents_col, r.document_id) = 0
           /\ PointersOf(r.document_id) = 0
    /\ r.failed_at = "insert_doc" =>
           /\ EmbeddingsOf(index, r.document_id) = VectorsOf(r)
           /\ CountOf(documents_col, r.document_id) = 0
           /\ PointersOf(r.document_id) = 0
    /\ r.failed_at = "insert_ptr" =>
           /\ EmbeddingsOf(index, r.document_id) = VectorsOf(r)
           /\ CountOf(documents_col, r.document_id) = 1
           /\ PointersOf(r.document_id) = 0

FailedUpload(r) == r.op = "upload" /\ r.pc = "failed"

FailedUploadsLeave ==
    \A i \in 1..Len(reqs) : FailedUpload(reqs[i]) => FailedLeaves(reqs[i])

\* C15: a store call of an upload that raises ends the request with status
\* 500 and changes no store, so what the earlier calls wrote remains; the
\* failed request takes no later step; with uploads alone, a failure of the
\* canonical insert leaves the embedding records with no canonical record
\* and no pointer, a failure of the pointer insert leaves the embedding
\* records and the canonical record with no pointer.
C15_NoRollback ==
    [][/\ \A i \in 1..Len(reqs) :
              /\ UploadFail(i) =>
                     /\ reqs'[i].pc = "failed"
                     /\ reqs'[i].status = 500
                     /\ Stores' = Stores
              /\ FailedUpload(reqs[i]) => reqs'[i] = reqs[i]
       /\ FailedUploadsLeave']_vars

\* one upload of three chunks has failed at the pointer insert, another at
\* the canonical insert
C15_Witness ==
    \E i, j \in 1..Len(reqs) :
        /\ FailedUpload(reqs[i]) /\ reqs[i].failed_at = "insert_ptr"
        /\ Len(reqs[i].chunks) = 3
        /\ Cardinality(EmbeddingsOf(index, reqs[i].document_id)) = 3
        /\ CountOf(documents_col, reqs[i].document_id) = 1
        /\ PointersOf(reqs[i].document_id) = 0
        /\ FailedUpload(reqs[j]) /\ reqs[j].failed_at = "insert_doc"
        /\ EmbeddingsOf(index, reqs[j].document_id) # {}
        /\ CountOf(documents_col, reqs[j].document_id) = 0

\* embedding records for d with no canonical record for d
OrphanEmbeddings(S, d) ==
    EmbeddingsOf(S.index, d) # {} /\ CountOf(S.documents_col, d) = 0

\* a canonical record for d with no embedding record for d
BareCanonical(S, d) ==
    CountOf(S.documents_col, d) > 0 /\ EmbeddingsOf(S.index, d) = {}

\* the interleavings of the store calls of one upload and one delete: which
\* of the two requests takes each step
Schedules ==
    LET n == Cardinality(UploadStoreSteps) + Cardinality(DeleteStoreSteps)
    IN  {sched \in [1..n -> {"upload", "delete"}] :
            Cardinality({k \in 1..n : sched[k] = "upload"}) =
                Cardinality(UploadStoreSteps)}

\* the stores after the upload r (at upc) and the delete of r.document_id
\* (at dpc) have taken their steps in the order sched
RECURSIVE Run(_, _, _, _, _)
Run(S, sched, r, upc, dpc) ==
    IF sched = <<>> THEN S
    ELSE IF Head(sched) = "upload"
         THEN Run(UploadCall(S, upc, r), Tail(sched), r,
                  NextPc(UploadOrder, upc), dpc)
         ELSE Run(DeleteCall(S, dpc, r.document_id), Tail(sched), r,
                  upc, NextPc(DeleteOrder, dpc))

\* the upload u as it reaches its first store call in the current state
Loaded(u) ==
    LET text == load_document(FileSave(uploads, u.file), u.file.filename)
    IN  [UploadRequest(u.file, u.form) EXCEPT
            !.pc = "upsert", !.text = text,
            !.chunks = chunk_text(text, DefaultChunkSize, DefaultOverlap),
            !.document_id = nextId]

\* the stores after upload u and the delete of its document_id, both run to
\* completion without a failure in the order sched
Outcome(u, sched) == Run(Stores, sched, Loaded(u), "upsert", DeleteOrder[1])

\* C16 (as claimed): some interleaving of one upload producing d and one
\* delete of d, both completed without failure, ends with embedding records
\* for d and no canonical record, and some interleaving ends with a
\* canonical record for d and no embedding record.
C16_BothPartialStates ==
    \E u \in StepUploads :
        /\ \E sched \in Schedules : OrphanEmbeddings(Outcome(u, sched), nextId)
        /\ \E sched \in Schedules : BareCanonical(Outcome(u, sched), nextId)

DeletesOf(d) ==
    {j \in 1..Len(reqs) : reqs[j].op = "delete" /\ reqs[j].document_id = d}

\* the upload at position i and every delete of its document_id have
\* completed without a failure, and there is such a delete
CompletedPair(i) ==
    /\ reqs[i].op = "upload"
    /\ reqs[i].pc = "done"
    /\ DeletesOf(reqs[i].document_id) # {}
    /\ \A j \in DeletesOf(reqs[i].document_id) : reqs[j].pc = "done"

\* C16 (amended): once an upload producing d and the deletes of d have
\* completed without failure, in any interleaving, the stores never hold
\* embedding records for d without a canonical record for d.  (A canonical
\* record without embedding records is reached: C16_Witness.)
C16_NoOrphanEmbeddings ==
    \A i \in 1..Len(reqs) :
        CompletedPair(i) => ~OrphanEmbeddings(Stores, reqs[i].document_id)

\* an upload of three chunks and a delete of its document_id have both
\* completed; the canonical record is there, the embedding records are not
C16_Witness ==
    \E i \in 1..Len(reqs) :
        /\ CompletedPair(i)
        /\ Len(reqs[i].chunks) = 3
        /\ BareCanonical(Stores, reqs[i].document_id)

\* the upload r has drawn its document_id
Identified(r) == r.op = "upload" /\ r.document_id > 0

\* C17: with uploads alone, completed, failed or in progress, in any
\* interleaving: a pointer for d implies a canonical record for d, and a
\* canonical record for d implies that all embedding records of d's chunks
\* are in the index.
C17_IngestOrder ==
    \A i \in 1..Len(reqs) :
        Identified(reqs[i]) =>
            LET d == reqs[i].document_id
            IN  /\ PointersOf(d) > 0 => CountOf(documents_col, d) > 0
                /\ CountOf(documents_col, d) > 0 =>
                       VectorsOf(reqs[i]) \subseteq index

\* an upload of three chunks has inserted its canonical record and not yet
\* its pointer, while another upload has stored its embeddings only
C17_Witness ==
    \E i, j \in 1..Len(reqs) :
        /\ reqs[i].op = "upload" /\ reqs[i].pc = "insert_ptr"
        /\ Cardinality(VectorsOf(reqs[i])) = 3
        /\ VectorsOf(reqs[i]) \subseteq index
        /\ CountOf(documents_col, reqs[i].document_id) = 1
        /\ PointersOf(reqs[i].document_id) = 0
        /\ reqs[j].op = "upload" /\ reqs[j].pc = "insert_doc"
        /\ EmbeddingsOf(index, reqs[j].document_id) # {}
        /\ CountOf(documents_col, reqs[j].document_id) = 0

\* the chunks of the bytes that the request r itself uploaded
OwnChunks(r) ==
    chunk_text(load_document(FileSave(EmptyDisk, r.file), r.file.filename),
               DefaultChunkSize, DefaultOverlap)

\* C18: in every interleaving of uploads, the chunks of each request, and
\* the embedding records stored under its document_id, are those of the
\* bytes uploaded in that request.
C18_UploadIsolation ==
    \A i \in 1..Len(reqs) :
        Identified(reqs[i]) =>
            /\ reqs[i].chunks = OwnChunks(reqs[i])
            /\ EmbeddingsOf(index, reqs[i].document_id) \subseteq
                   Range(ChunkVectors(OwnChunks(reqs[i]), reqs[i].document_id))

\* the records of a collection with document_id e, in order
RecordsOf(col, e) == SelectSeq(col, LAMBDA r : r.document_id = e)

\* the stores hold the same records for e before and after the step
KeepsRecordsOf(e) ==
    /\ RecordsOf(documents_col', e) = RecordsOf(documents_col, e)
    /\ RecordsOf(stateboard_col', e) = RecordsOf(stateboard_col, e)
    /\ RecordsOf(cbse_col', e) = RecordsOf(cbse_col, e)
    /\ EmbeddingsOf(index', e) = EmbeddingsOf(index, e)

\* C19: every step of a delete of d, and a failure of one, leaves the
\* canonical record, the pointers and the embedding records of every other
\* document_id e unchanged.
C19_DeleteFrame ==
    [][\A i \in 1..Len(reqs) :
           (DeleteStep(i) \/ DeleteFail(i)) =>
               \A e \in DocIds \ {reqs[i].document_id} : KeepsRecordsOf(e)]_vars

\* the delete of one stored document failed at its last call, after it
\* removed the canonical record and the pointer; the three embedding
\* records stay; the other document is whole
C19_Witness ==
    \E i \in 1..Len(reqs), e \in DocIds :
        /\ reqs[i].op = "delete" /\ reqs[i].pc = "failed"
        /\ reqs[i].failed_at = "delete_index"
        /\ reqs[i].document_id # e
        /\ reqs[i].document_id < nextId
        /\ CountOf(documents_col, reqs[i].document_id) = 0
        /\ PointersOf(reqs[i].document_id) = 0
        /\ Cardinality(EmbeddingsOf(index, reqs[i].document_id)) = 3
        /\ CountOf(documents_col, e) = 1
        /\ PointersOf(e) = 1
        /\ EmbeddingsOf(index, e) # {}

=============================================================================
